---- MODULE Spec2Model ----
(***************************************************************************)
(* Model of scripts/extract_builder_metadata.py: the decorator unwrapper,  *)
(* the type annotation classifier, the version-suffix conversion, the      *)
(* registry walk and the main entry point.                                 *)
(*                                                                         *)
(* Python text is modelled as a sequence of one-character strings, so that *)
(* startswith, slicing and replace are computed rather than assumed.       *)
(***************************************************************************)
EXTENDS Integers, Sequences, FiniteSets, TLC

VARIABLES
    \* ---- unwrap_decorated_function (one call) ----
    heap,           \* the objects reachable from the argument: id -> attributes
    fn,             \* the argument of the call
    original_fn,    \* local original_fn
    depth,          \* local depth
    upc,            \* "idle" | "loop" | "returned" | "raised"
    \* ---- version_spec_to_suffix / the record name (one conversion) ----
    version_spec,           \* version_info["version_spec"]
    builder_name,           \* the registry key
    version_suffix,         \* local version_suffix
    versioned_builder_name, \* local versioned_builder_name
    spc,                    \* "idle" | "call" | "done"
    \* ---- extract_type_info (one call) ----
    annotation,     \* the argument
    type_info,      \* the returned record
    tpc,            \* "idle" | "call" | "done"
    \* ---- extract_docstring_info (one call) ----
    doc_lines,      \* local doc split into its lines; <<>> when there is no docstring
    line_no,        \* index in doc of the line the loop of line 354 is at
    doc_st,         \* locals param_docs, current_param, description_lines, in_params_section
    doc_info,       \* the returned record
    dpc,            \* "idle" | "loop" | "done"
    \* ---- one run of the script: module level, then main() ----
    registry,       \* REGISTRY: sequence of [name, entries], in iteration order
    verbose,        \* args.verbose
    pc,             \* position of the run
    bi,             \* index of the builder the loop of line 400 is at
    ei,             \* index of the entry the loop of line 405 is at (0: not started)
    builder_versions,       \* local builder_versions
    metadata,               \* local metadata: [builders, statistics]
    total_entries,          \* local total_entries
    builders_with_partial,  \* local builders_with_partial
    builders_with_parallel, \* local builders_with_parallel
    extension_format,       \* local extension_format
    files,          \* the files written, in order: [path, content]
    stdout,         \* the lines printed to standard output
    stderr,         \* the lines printed to standard error
    exit_code,      \* process exit status; -1 while running
    failure         \* "none", or the stage whose error ended the run

uvars == <<heap, fn, original_fn, depth, upc>>
svars == <<version_spec, builder_name, version_suffix, versioned_builder_name, spc>>
tvars == <<annotation, type_info, tpc>>
dvars == <<doc_lines, line_no, doc_st, doc_info, dpc>>

mvars == <<registry, verbose, pc, bi, ei, builder_versions, metadata, total_entries,
           builders_with_partial, builders_with_parallel, extension_format,
           files, stdout, stderr, exit_code, failure>>

vars == <<uvars, svars, tvars, dvars, mvars>>

(***************************************************************************)
(* Bounds of the model.                                                    *)
(***************************************************************************)
MaxWraps == 12      \* longest pure __wrapped__ chain
MaxMixed == 5       \* longest chain mixing the five wrapper shapes
NObj == 2           \* objects of the small arbitrary (possibly cyclic) heaps
MaxVersionParts == 3 \* most components of a release number in a specifier
MaxArgs == 2        \* most arguments of a Literal or Union annotation

\* The values of the variables of the parts a specification does not run.
UnwrapIdle ==
    /\ heap = <<>> /\ fn = [k |-> "absent", id |-> 0]
    /\ original_fn = [k |-> "absent", id |-> 0] /\ depth = 0 /\ upc = "idle"
SuffixIdle ==
    /\ version_spec = <<>> /\ builder_name = <<>> /\ version_suffix = <<>>
    /\ versioned_builder_name = <<>> /\ spc = "idle"
TypeIdle ==
    /\ annotation = <<>> /\ type_info = <<>> /\ tpc = "idle"
DocIdle ==
    /\ doc_lines = <<>> /\ line_no = 0 /\ doc_st = <<>> /\ doc_info = <<>> /\ dpc = "idle"
MainIdle ==
    /\ registry = <<>> /\ verbose = FALSE /\ pc = "idle" /\ bi = 0 /\ ei = 0
    /\ builder_versions = <<>> /\ metadata = <<>> /\ total_entries = 0
    /\ builders_with_partial = 0 /\ builders_with_parallel = 0
    /\ extension_format = <<>> /\ files = <<>> /\ stdout = <<>> /\ stderr = <<>>
    /\ exit_code = -1 /\ failure = "none"

(***************************************************************************)
(* Python values seen by the unwrapper.                                    *)
(***************************************************************************)
Obj(i)      == [k |-> "obj", id |-> i]           \* reference to heap[i]
Absent      == [k |-> "absent", id |-> 0]        \* hasattr(...) is False
NonCallable == [k |-> "noncallable", id |-> 0]   \* a truthy value that is not callable
Falsy       == [k |-> "falsy", id |-> 0]         \* None, 0, "" in a closure cell
EmptyCell   == [k |-> "empty_cell", id |-> 0]    \* cell.cell_contents raises ValueError
Ambiguous   == [k |-> "ambiguous", id |-> 0]     \* bool(value) raises ValueError (an array)

IsObj(v) == v.k = "obj"

NoName == <<>>                                   \* the object has no __name__
NameF == <<"f">>
NameG == <<"g">>
NameWrapped == <<"w", "r", "a", "p", "p", "e", "d">>
NamePrivate == <<"_", "h">>

\* str.startswith
StartsWith(s, p) == Len(s) >= Len(p) /\ SubSeq(s, 1, Len(p)) = p

\* A plain function: no wrapper attribute, no closure.
PlainObj(nm) ==
    [name |-> nm, wrapped |-> Absent, fn |-> Absent, wrapped_fn |-> Absent,
     func |-> Absent, closure |-> <<>>, has_call |-> TRUE, dict_op |-> FALSE]

\* callable(v)
Callable(h, v) == IsObj(v) /\ v.id \in DOMAIN h /\ h[v.id].has_call

(***************************************************************************)
(* Lines 240-257: the closure scan from cell i on.  The result is          *)
(* "match" with the chosen callable, "nomatch", or "raise".                *)
(***************************************************************************)
RECURSIVE ScanClosure(_, _, _)
ScanClosure(h, o, i) ==
    IF i > Len(o.closure) THEN [kind |-> "nomatch", val |-> Absent]
    ELSE LET c == o.closure[i] IN
         IF c.k \in {"empty_cell", "ambiguous"}
         THEN [kind |-> "raise", val |-> c]
         ELSE IF ~Callable(h, c) THEN ScanClosure(h, o, i + 1)
         ELSE LET cn == h[c.id].name IN
              IF cn = NoName THEN ScanClosure(h, o, i + 1)
              ELSE IF o.name = NoName THEN [kind |-> "raise", val |-> c]
              ELSE IF /\ cn # o.name
                      /\ cn # NameWrapped
                      /\ ~StartsWith(cn, <<"_">>)
                   THEN [kind |-> "match", val |-> c]
                   ELSE ScanClosure(h, o, i + 1)

max_unwrap_depth_off_by_one == 10 + 1
max_unwrap_depth == 10

(***************************************************************************)
(* Lines 201-261: one iteration of the while loop on the current callable. *)
(* kind is "unwrapped" (a rule matched, continue), "stop" (break) or       *)
(* "raise"; rule is the number of the rule that matched.                   *)
(***************************************************************************)
UnwrapIter(h, cur) ==
    IF ~IsObj(cur) THEN [kind |-> "stop", val |-> cur, rule |-> 0]
    ELSE LET o == h[cur.id] IN
         IF o.wrapped # Absent
         THEN [kind |-> "unwrapped", val |-> o.wrapped, rule |-> 1]
         ELSE IF Callable(h, o.fn) /\ (o.dict_op \/ o.has_call)
         THEN [kind |-> "unwrapped", val |-> o.fn, rule |-> 2]
         ELSE IF Callable(h, o.wrapped_fn)
         THEN [kind |-> "unwrapped", val |-> o.wrapped_fn, rule |-> 3]
         ELSE IF Callable(h, o.func)
         THEN [kind |-> "unwrapped", val |-> o.func, rule |-> 4]
         ELSE LET s == ScanClosure(h, o, 1) IN
              CASE s.kind = "match" -> [kind |-> "unwrapped", val |-> s.val, rule |-> 5]
                [] s.kind = "raise" -> [kind |-> "raise", val |-> cur, rule |-> 5]
                [] OTHER -> [kind |-> "stop", val |-> cur, rule |-> 0]

(***************************************************************************)
(* Lines 196-263 as a function: the loop run from (cur, d) to its end.     *)
(***************************************************************************)
RECURSIVE UnwrapFrom(_, _, _)
UnwrapFrom(h, cur, d) ==
    IF d >= max_unwrap_depth THEN [raised |-> FALSE, val |-> cur, depth |-> d]
    ELSE LET r == UnwrapIter(h, cur) IN
         CASE r.kind = "unwrapped" -> UnwrapFrom(h, r.val, d + 1)
           [] r.kind = "raise" -> [raised |-> TRUE, val |-> cur, depth |-> d + 1]
           [] OTHER -> [raised |-> FALSE, val |-> cur, depth |-> d + 1]

unwrap_decorated_function(h, f) == UnwrapFrom(h, f, 0)

(***************************************************************************)
(* Inputs of the unwrapper.                                                *)
(***************************************************************************)
\* f_1 wraps f_2 wraps ... wraps f_{n+1} through __wrapped__ alone.
WrappedChain(n) ==
    [i \in 1..(n + 1) |->
        IF i <= n THEN [PlainObj(NameF) EXCEPT !.wrapped = Obj(i + 1)]
        ELSE PlainObj(NameF)]

\* One wrapper of each of the five shapes around target t.
Layer(kind, t) ==
    CASE kind = 1 -> [PlainObj(NameWrapped) EXCEPT !.wrapped = t]
      [] kind = 2 -> [PlainObj(NoName) EXCEPT !.fn = t, !.dict_op = TRUE]
      [] kind = 3 -> [PlainObj(NoName) EXCEPT !.wrapped_fn = t]
      [] kind = 4 -> [PlainObj(NoName) EXCEPT !.func = t]
      [] OTHER    -> [PlainObj(NameWrapped) EXCEPT !.closure = <<Falsy, t>>]

RECURSIVE KindSeqs(_)
KindSeqs(n) ==
    IF n = 0 THEN {<<>>}
    ELSE LET S == KindSeqs(n - 1) IN
         S \cup {Append(s, k) : s \in {t \in S : Len(t) = n - 1}, k \in 1..5}

MixedChain(ks) ==
    [i \in 1..(Len(ks) + 1) |->
        IF i <= Len(ks) THEN Layer(ks[i], Obj(i + 1)) ELSE PlainObj(NameF)]

\* The attribute values and closures of the small arbitrary heaps.
Values == {Obj(i) : i \in 1..NObj} \cup {NonCallable}
Cells  == Values \cup {Falsy, EmptyCell, Ambiguous}
Shapes ==
    {PlainObj(nm) : nm \in {NameF, NameG, NamePrivate}}
    \cup {[PlainObj(NameWrapped) EXCEPT !.wrapped = v] : v \in Values}
    \cup {[PlainObj(NoName) EXCEPT !.fn = v, !.dict_op = d, !.has_call = c] :
            v \in Values, d \in BOOLEAN, c \in BOOLEAN}
    \cup {[PlainObj(NoName) EXCEPT !.wrapped_fn = v] : v \in Values}
    \cup {[PlainObj(NoName) EXCEPT !.func = v] : v \in Values}
    \cup {[PlainObj(NameWrapped) EXCEPT !.closure = <<c>>] : c \in Cells}
    \cup {[PlainObj(NameG) EXCEPT !.closure = <<c1, c2>>] :
            c1 \in {Falsy, NonCallable, Obj(1), Ambiguous}, c2 \in Cells}
    \cup {[PlainObj(NameF) EXCEPT !.wrapped = v, !.fn = w, !.wrapped_fn = w,
                                  !.func = w, !.closure = <<w>>] :
            v \in {Absent, Obj(1)}, w \in {Obj(NObj)}}
    \cup {[PlainObj(NameG) EXCEPT !.fn = v, !.wrapped_fn = w, !.func = Obj(1)] :
            v \in {NonCallable, Obj(1)}, w \in {NonCallable, Obj(NObj)}}

\* The heaps tried: pure __wrapped__ chains, chains mixing the five shapes, and
\* every heap of NObj objects of the shapes above (cycles included).
Heaps(wraps, mixed) ==
    {WrappedChain(n) : n \in 0..wraps}
    \cup {MixedChain(ks) : ks \in KindSeqs(mixed)}
    \cup [1..NObj -> Shapes]

(***************************************************************************)
(* One call of unwrap_decorated_function, an iteration per step.           *)
(***************************************************************************)
UnwrapInit ==
    /\ heap \in Heaps(MaxWraps, MaxMixed)
    /\ fn \in {Obj(1)} \cup (IF heap \in [1..NObj -> Shapes] THEN {Obj(NObj)} ELSE {})
    /\ original_fn = fn
    /\ depth = 0
    /\ upc = "loop"
    /\ SuffixIdle /\ TypeIdle /\ DocIdle /\ MainIdle

\* Lines 200-257: an iteration in which a rule matches.
UnwrapIterate ==
    /\ upc = "loop"
    /\ depth < max_unwrap_depth
    /\ LET r == UnwrapIter(heap, original_fn) IN
       /\ r.kind = "unwrapped"
       /\ original_fn' = r.val
    /\ depth' = depth + 1
    /\ UNCHANGED <<heap, fn, upc, svars, tvars, dvars, mvars>>

\* Lines 259-263: no rule matched: break and return.
UnwrapBreak ==
    /\ upc = "loop"
    /\ depth < max_unwrap_depth
    /\ UnwrapIter(heap, original_fn).kind = "stop"
    /\ depth' = depth + 1
    /\ upc' = "returned"
    /\ UNCHANGED <<heap, fn, original_fn, svars, tvars, dvars, mvars>>

\* Line 200 false, line 263: the cap is hit.
UnwrapCap ==
    /\ upc = "loop"
    /\ depth >= max_unwrap_depth
    /\ upc' = "returned"
    /\ UNCHANGED <<heap, fn, original_fn, depth, svars, tvars, dvars, mvars>>

\* Line 243: reading or testing a closure cell raises; nothing catches it here.
UnwrapRaise ==
    /\ upc = "loop"
    /\ depth < max_unwrap_depth
    /\ UnwrapIter(heap, original_fn).kind = "raise"
    /\ depth' = depth + 1
    /\ upc' = "raised"
    /\ UNCHANGED <<heap, fn, original_fn, svars, tvars, dvars, mvars>>

UnwrapNext == UnwrapIterate \/ UnwrapBreak \/ UnwrapCap \/ UnwrapRaise

SpecUnwrap == UnwrapInit /\ [][UnwrapNext]_vars

(***************************************************************************)
(* Properties of the unwrapper.                                            *)
(***************************************************************************)
HeapSize(h) == Cardinality(DOMAIN h)

NoWrapperShape(o) ==
    /\ o.wrapped = Absent /\ o.fn = Absent /\ o.wrapped_fn = Absent
    /\ o.func = Absent /\ o.closure = <<>>

\* h is f_1 -> f_2 -> ... -> f_n linked by __wrapped__ alone, f_n a plain function.
PureWrappedChain(h) ==
    /\ \A i \in 1..(HeapSize(h) - 1) :
          h[i].wrapped = Obj(i + 1) /\ h[i] = [PlainObj(h[i].name) EXCEPT !.wrapped = Obj(i + 1)]
    /\ NoWrapperShape(h[HeapSize(h)])

Min(a, b) == IF a <= b THEN a ELSE b

\* C1: a callable wrapped N times purely through __wrapped__ unwraps to the
\* innermost callable when N <= 10 and to the callable exactly 10 steps in
\* when N > 10.
C1_WrappedChainDepth ==
    (upc = "returned" /\ fn = Obj(1) /\ PureWrappedChain(heap))
        => original_fn = Obj(Min(HeapSize(heap) - 1, 10) + 1)

C1_Witness ==
    /\ upc = "returned" /\ fn = Obj(1) /\ PureWrappedChain(heap)
    /\ HeapSize(heap) - 1 > 10
    /\ original_fn = Obj(11)

\* C2: for every input callable the unwrapper ends within 10 iterations,
\* raises no error, and returns the input or a callable reached from it.
C2_NeverRaises ==
    /\ depth <= 10
    /\ upc # "raised"
    /\ upc = "returned" => (original_fn = fn \/ Callable(heap, original_fn))

(***************************************************************************)
(* The five rules as the algorithm states them, each with the callable it  *)
(* descends into.                                                          *)
(***************************************************************************)
\* A closure cell rule 5 may descend into: a callable whose name differs from
\* the wrapper's, is not "wrapped" and does not start with an underscore.
Qualifies(h, o, c) ==
    /\ Callable(h, c)
    /\ h[c.id].name # NoName
    /\ h[c.id].name # o.name
    /\ h[c.id].name # NameWrapped
    /\ ~StartsWith(h[c.id].name, <<"_">>)

QualifyingCells(h, o) == {i \in 1..Len(o.closure) : Qualifies(h, o, o.closure[i])}

RuleMatches(h, o, r) ==
    CASE r = 1 -> o.wrapped # Absent
      [] r = 2 -> Callable(h, o.fn) /\ (o.dict_op \/ o.has_call)
      [] r = 3 -> Callable(h, o.wrapped_fn)
      [] r = 4 -> Callable(h, o.func)
      [] OTHER -> QualifyingCells(h, o) # {}

RuleTarget(h, o, r) ==
    CASE r = 1 -> o.wrapped
      [] r = 2 -> o.fn
      [] r = 3 -> o.wrapped_fn
      [] r = 4 -> o.func
      [] OTHER -> LET Q == QualifyingCells(h, o) IN
                  o.closure[CHOOSE i \in Q : \A j \in Q : i <= j]

\* The number of the first rule that matches cur, 0 when none does.
FirstRule(h, cur) ==
    IF ~IsObj(cur) THEN 0
    ELSE LET M == {r \in 1..5 : RuleMatches(h, h[cur.id], r)} IN
         IF M = {} THEN 0 ELSE CHOOSE r \in M : \A q \in M : r <= q

\* What an iteration on the current callable has to do: descend one layer by
\* the first matching rule, or stop and return when no rule matches.
IterationAsStated ==
    LET r == FirstRule(heap, original_fn) IN
    IF r = 0
    THEN upc' = "returned" /\ original_fn' = original_fn
    ELSE /\ upc' = "loop"
         /\ original_fn' = RuleTarget(heap, heap[original_fn.id], r)
         /\ depth' = depth + 1

\* C11: in each iteration the rules are tried in the order 1..5 and exactly
\* the first rule that matches is applied, one layer per iteration; the loop
\* stops at the first iteration in which no rule matches, so a callable
\* returned before the cap matches none of the five rules.
C11_FirstMatchingRuleApplied ==
    [][(upc = "loop" /\ depth < 10) => IterationAsStated]_vars

\* The same holds of every iteration that does not raise.
C11_OrderUnlessRaised ==
    [][(upc = "loop" /\ depth < 10 /\ upc' # "raised") => IterationAsStated]_vars

\* An iteration raises although rule 5 has a callable to descend into.
C11_RaisedOverMatch ==
    /\ upc = "raised"
    /\ FirstRule(heap, original_fn) = 5

(***************************************************************************)
(* Version specifiers and the record name (lines 486-507, 532-534).        *)
(***************************************************************************)
\* str.replace(old, new) for a one-character old.
RECURSIVE Replace(_, _, _)
Replace(s, old, new) ==
    IF s = <<>> THEN <<>>
    ELSE (IF Head(s) = old THEN new ELSE <<Head(s)>>) \o Replace(Tail(s), old, new)

\* s[n:]
DropFirst(s, n) == SubSeq(s, n + 1, Len(s))

GE == <<">", "=">>
EQEQ == <<"=", "=">>
LE == <<"<", "=">>
SuffixPrefix == <<"_", "v">>

\* Seeded bug: the exact-equality and upper-bound branches keep the dots.
version_spec_to_suffix_keeps_dots(spec) ==
    IF spec = GE \o <<"0", ".", "0", ".", "0">> \/ StartsWith(spec, GE) THEN <<>>
    ELSE IF StartsWith(spec, EQEQ) THEN SuffixPrefix \o DropFirst(spec, 2)
    ELSE IF StartsWith(spec, LE) THEN SuffixPrefix \o DropFirst(spec, 2)
    ELSE SuffixPrefix \o
         Replace(Replace(Replace(Replace(spec, ".", <<"_">>), ">", <<"g", "t">>),
                         "<", <<"l", "t">>), "=", <<"e", "q">>)

\* Seeded bug: only the literal ">=0.0.0" counts as the latest version.
version_spec_to_suffix_only_zero(spec) ==
    IF spec = GE \o <<"0", ".", "0", ".", "0">> THEN <<>>
    ELSE IF StartsWith(spec, EQEQ)
    THEN SuffixPrefix \o Replace(DropFirst(spec, 2), ".", <<"_">>)
    ELSE IF StartsWith(spec, LE)
    THEN SuffixPrefix \o Replace(DropFirst(spec, 2), ".", <<"_">>)
    ELSE SuffixPrefix \o
         Replace(Replace(Replace(Replace(spec, ".", <<"_">>), ">", <<"g", "t">>),
                         "<", <<"l", "t">>), "=", <<"e", "q">>)

\* Lines 486-507.
version_spec_to_suffix(spec) ==
    IF spec = GE \o <<"0", ".", "0", ".", "0">> \/ StartsWith(spec, GE) THEN <<>>
    ELSE IF StartsWith(spec, EQEQ)
    THEN SuffixPrefix \o Replace(DropFirst(spec, 2), ".", <<"_">>)
    ELSE IF StartsWith(spec, LE)
    THEN SuffixPrefix \o Replace(DropFirst(spec, 2), ".", <<"_">>)
    ELSE SuffixPrefix \o
         Replace(Replace(Replace(Replace(spec, ".", <<"_">>), ">", <<"g", "t">>),
                         "<", <<"l", "t">>), "=", <<"e", "q">>)

\* The specifier strings tried: str() of a specifier set is empty, one
\* "<operator><version>" clause, or clauses joined by commas.
Operators == { GE, EQEQ, LE, <<"<">>, <<">">>, <<"!", "=">>, <<"~", "=">> }
Digits == {"0", "1", "2", "3"}

\* Release numbers of 1..n one-digit components joined by dots.
RECURSIVE Versions(_)
Versions(n) ==
    IF n = 1 THEN {<<d>> : d \in Digits}
    ELSE LET S == Versions(n - 1) IN
         S \cup {v \o <<".", d>> : v \in {t \in S : Len(t) = 2 * n - 3}, d \in Digits}

Clauses(n) == {op \o v : op \in Operators, v \in Versions(n)}
ShortClauses == {op \o v : op \in Operators, v \in {<<"1">>, <<"2", ".", "0">>}}

VersionSpecs(n) ==
    {<<>>} \cup Clauses(n) \cup {c1 \o <<",">> \o c2 : c1 \in ShortClauses, c2 \in ShortClauses}
BuilderNames == {<<"b">>, <<"n", "_", "v">>}

SuffixInit ==
    /\ version_spec \in VersionSpecs(MaxVersionParts)
    /\ builder_name \in BuilderNames
    /\ version_suffix = <<>>
    /\ versioned_builder_name = <<>>
    /\ spc = "call"
    /\ UnwrapIdle /\ TypeIdle /\ DocIdle /\ MainIdle

\* Lines 533-534: the suffix and the name of one flattened record.
NameRecord ==
    /\ spc = "call"
    /\ version_suffix' = version_spec_to_suffix(version_spec)
    /\ versioned_builder_name' = builder_name \o version_spec_to_suffix(version_spec)
    /\ spc' = "done"
    /\ UNCHANGED <<version_spec, builder_name, uvars, tvars, dvars, mvars>>

SuffixNext == NameRecord

SpecSuffix == SuffixInit /\ [][SuffixNext]_vars

\* "_v" followed by v with every dot turned into an underscore, stated pointwise.
IsDottedSuffixOf(sfx, v) ==
    /\ Len(sfx) = Len(v) + 2
    /\ sfx[1] = "_" /\ sfx[2] = "v"
    /\ \A i \in 1..Len(v) : sfx[i + 2] = (IF v[i] = "." THEN "_" ELSE v[i])

\* An upper-bounded specifier: "<=V" or "<V"; its version V.
UpperBounded(spec) == StartsWith(spec, <<"<">>)
UpperBoundVersion(spec) == IF StartsWith(spec, LE) THEN DropFirst(spec, 2) ELSE DropFirst(spec, 1)

\* C6 as stated: every "==V" and every upper-bounded specifier gets "_v" + V
\* with dots as underscores, appended to the base name.
C6_AsStated ==
    spc = "done" =>
        /\ StartsWith(version_spec, EQEQ) =>
              /\ IsDottedSuffixOf(version_suffix, DropFirst(version_spec, 2))
              /\ versioned_builder_name = builder_name \o version_suffix
        /\ UpperBounded(version_spec) =>
              /\ IsDottedSuffixOf(version_suffix, UpperBoundVersion(version_spec))
              /\ versioned_builder_name = builder_name \o version_suffix

\* C6 (amended): every specifier starting with "==" or with "<=" gets the
\* suffix "_v" + V with dots as underscores, V the text after the two-character
\* operator, and the record name is the base name followed by that suffix.
C6_ExactOrInclusiveUpper ==
    (spc = "done" /\ (StartsWith(version_spec, EQEQ) \/ StartsWith(version_spec, LE))) =>
        /\ IsDottedSuffixOf(version_suffix, DropFirst(version_spec, 2))
        /\ versioned_builder_name = builder_name \o version_suffix

C6_Witness ==
    /\ spc = "done"
    /\ version_spec = <<"=", "=", "1", ".", "2", ".", "3">>
    /\ version_suffix = <<"_", "v", "1", "_", "2", "_", "3">>
    /\ versioned_builder_name = builder_name \o <<"_", "v", "1", "_", "2", "_", "3">>

\* A lower-bound-only specifier: ">=V" or ">V".
LowerBoundOnly(spec) == StartsWith(spec, <<">">>)

\* C7 as stated: every lower-bound-only specifier gets the empty suffix and
\* the bare base name, and no other specifier does.
C7_AsStated ==
    spc = "done" =>
        /\ LowerBoundOnly(version_spec) =>
              (version_suffix = <<>> /\ versioned_builder_name = builder_name)
        /\ version_suffix = <<>> => LowerBoundOnly(version_spec)

\* C7 (amended): the suffix is empty, and the record name the bare base name,
\* exactly for the specifiers that start with ">=".
C7_InclusiveLowerOnly ==
    spc = "done" =>
        /\ StartsWith(version_spec, GE) =>
              (version_suffix = <<>> /\ versioned_builder_name = builder_name)
        /\ version_suffix = <<>> => StartsWith(version_spec, GE)
        /\ versioned_builder_name = builder_name => StartsWith(version_spec, GE)

C7_Witness ==
    /\ spc = "done"
    /\ version_spec = <<">", "=", "0", ".", "0", ".", "0">>
    /\ version_suffix = <<>>
    /\ versioned_builder_name = builder_name

(***************************************************************************)
(* Type annotations (lines 80-183).  An annotation, a type and a literal   *)
(* constant are all nodes [name, origin, args]: get_origin is .origin,     *)
(* get_args is .args, and a node without origin has no arguments.          *)
(***************************************************************************)
NoOrigin == "no_origin"
Atom(n) == [name |-> n, origin |-> NoOrigin, args |-> <<>>]
Generic(o, as) == [name |-> o, origin |-> o, args |-> as]

ParameterEmpty == Atom("inspect.Parameter.empty")
NoneType == Atom("NoneType")
None == <<"None">>
Str(x) == <<"str", x>>

get_origin(a) == a.origin
get_args(a) == a.args

RECURSIVE Concat(_)
Concat(seqs) == IF seqs = <<>> THEN <<>> ELSE Head(seqs) \o Concat(Tail(seqs))

\* Lines 92-108: the literals one member of a union contributes.
UnionMemberLiterals(arg) ==
    IF get_origin(arg) = "Literal" THEN get_args(arg)
    ELSE IF arg.origin = NoOrigin THEN <<>>
    ELSE IF ~(get_origin(arg) # NoOrigin /\ get_args(arg) # <<>>) THEN <<>>
    ELSE Concat([i \in 1..Len(get_args(arg)) |->
                    IF get_origin(get_args(arg)[i]) = "Literal"
                    THEN get_args(get_args(arg)[i]) ELSE <<>>])

\* Seeded bug: the Literal branch of lines 84-86 is missing.
extract_literals_without_literal_branch(origin, args) ==
    IF origin # "Union" \/ args = <<>> THEN <<>>
    ELSE Concat([i \in 1..Len(args) |-> UnionMemberLiterals(args[i])])

\* Lines 80-110.
extract_literals_from_annotation(origin, args) ==
    IF origin = "Literal" THEN args
    ELSE IF origin # "Union" \/ args = <<>> THEN <<>>
    ELSE Concat([i \in 1..Len(args) |-> UnionMemberLiterals(args[i])])

\* origin.__name__.lower() for the origins of the model.
OriginNameLower(origin) ==
    CASE origin = "list" -> <<"l", "i", "s", "t">>
      [] origin = "Sequence" -> <<"s", "e", "q", "u", "e", "n", "c", "e">>
      [] origin = "tuple" -> <<"t", "u", "p", "l", "e">>
      [] origin = "dict" -> <<"d", "i", "c", "t">>
      [] origin = "Union" -> <<"u", "n", "i", "o", "n">>
      [] OTHER -> <<"l", "i", "t", "e", "r", "a", "l">>

\* sub in s
Contains(s, sub) ==
    \E i \in 0..(Len(s) - Len(sub)) : SubSeq(s, i + 1, i + Len(sub)) = sub

sequence_names ==
    { <<"s", "e", "q", "u", "e", "n", "c", "e">>, <<"l", "i", "s", "t">>,
      <<"t", "u", "p", "l", "e">>, <<"i", "t", "e", "r", "a", "b", "l", "e">> }

\* Lines 113-139.
check_sequence_type(origin, args) ==
    IF origin = NoOrigin THEN [is_sequence |-> FALSE, inner_type |-> None]
    ELSE LET seq == (\E n \in sequence_names : Contains(OriginNameLower(origin), n))
                    \/ origin = "Sequence"
         IN [is_sequence |-> seq,
             inner_type |-> IF seq /\ args # <<>> THEN Str(args[1]) ELSE None]

\* Seeded bug: is_optional looks for None's type without asking for a union.
extract_type_info_optional_without_union(ann) ==
    IF ann = ParameterEmpty
    THEN [type_string |-> <<"A", "n", "y">>, origin |-> None, args |-> <<>>,
          literals |-> <<>>, is_union |-> FALSE, is_optional |-> FALSE,
          is_sequence |-> FALSE, inner_type |-> None]
    ELSE LET origin == get_origin(ann)
             args == get_args(ann)
             sq == check_sequence_type(origin, args)
         IN [type_string |-> Str(ann),
             origin |-> IF origin # NoOrigin THEN Str(origin) ELSE None,
             args |-> [i \in 1..Len(args) |-> Str(args[i])],
             literals |-> extract_literals_from_annotation(origin, args),
             is_union |-> origin = "Union",
             is_optional |-> \E i \in 1..Len(args) : args[i] = NoneType,
             is_sequence |-> sq.is_sequence,
             inner_type |-> sq.inner_type]

\* Lines 142-183.
extract_type_info(ann) ==
    IF ann = ParameterEmpty
    THEN [type_string |-> <<"A", "n", "y">>, origin |-> None, args |-> <<>>,
          literals |-> <<>>, is_union |-> FALSE, is_optional |-> FALSE,
          is_sequence |-> FALSE, inner_type |-> None]
    ELSE LET origin == get_origin(ann)
             args == get_args(ann)
             sq == check_sequence_type(origin, args)
         IN [type_string |-> Str(ann),
             origin |-> IF origin # NoOrigin THEN Str(origin) ELSE None,
             args |-> [i \in 1..Len(args) |-> Str(args[i])],
             literals |-> extract_literals_from_annotation(origin, args),
             is_union |-> origin = "Union",
             is_optional |-> origin = "Union" /\ \E i \in 1..Len(args) : args[i] = NoneType,
             is_sequence |-> sq.is_sequence,
             inner_type |-> sq.inner_type]

\* Line 186-188.
get_type_annotation_string(ann) == extract_type_info(ann).type_string

\* The annotations tried.
RECURSIVE SeqsUpTo(_, _)
SeqsUpTo(S, n) ==
    IF n = 0 THEN {<<>>}
    ELSE LET T == SeqsUpTo(S, n - 1) IN
         T \cup {Append(t, x) : t \in {u \in T : Len(u) = n - 1}, x \in S}

LiteralValues == {Atom("'a'"), Atom("'b'")}
PlainTypes == {Atom("int"), Atom("str"), NoneType}
LiteralAnnotations(n) ==
    {Generic("Literal", as) : as \in SeqsUpTo(LiteralValues, n) \ {<<>>}}
ContainerAnnotations ==
    {Generic(o, <<a>>) :
        o \in {"list", "Sequence", "dict"},
        a \in {Atom("int"), NoneType, Generic("Literal", <<Atom("'a'")>>),
               Generic("Literal", <<Atom("'a'"), Atom("'b'")>>)}}
    \cup {Generic("list", <<>>)}
UnionMembers(n) == PlainTypes \cup LiteralAnnotations(n) \cup ContainerAnnotations
UnionAnnotations(n) ==
    {Generic("Union", as) : as \in {t \in SeqsUpTo(UnionMembers(n), n) : Len(t) >= 2}}
Annotations(n) ==
    {ParameterEmpty} \cup PlainTypes \cup LiteralAnnotations(n)
    \cup ContainerAnnotations \cup UnionAnnotations(n)

TypeInit ==
    /\ annotation \in Annotations(MaxArgs)
    /\ type_info = <<>>
    /\ tpc = "call"
    /\ UnwrapIdle /\ SuffixIdle /\ DocIdle /\ MainIdle

\* Lines 142-183: one call of extract_type_info.
ClassifyAnnotation ==
    /\ tpc = "call"
    /\ type_info' = extract_type_info(annotation)
    /\ tpc' = "done"
    /\ UNCHANGED <<annotation, uvars, svars, dvars, mvars>>

TypeNext == ClassifyAnnotation

SpecType == TypeInit /\ [][TypeNext]_vars

\* C8: for an annotation whose origin is Literal, the literals field is
\* exactly the annotation's argument list, same elements in the same order.
C8_LiteralArgsExact ==
    (tpc = "done" /\ annotation.origin = "Literal") =>
        /\ Len(type_info.literals) = Len(annotation.args)
        /\ \A i \in 1..Len(annotation.args) : type_info.literals[i] = annotation.args[i]

C8_Witness ==
    /\ tpc = "done"
    /\ annotation = Generic("Literal", <<Atom("'b'"), Atom("'a'")>>)
    /\ type_info.literals = <<Atom("'b'"), Atom("'a'")>>

\* C9: is_union holds exactly for annotations whose origin is Union, and
\* is_optional exactly when is_union holds and None's type is an argument.
C9_UnionOptional ==
    tpc = "done" =>
        /\ type_info.is_union <=> annotation.origin = "Union"
        /\ type_info.is_optional <=>
              (type_info.is_union /\ \E i \in 1..Len(annotation.args) : annotation.args[i] = NoneType)
        /\ type_info.is_optional => type_info.is_union

C9_Witness ==
    /\ tpc = "done"
    /\ annotation.origin = "Union"
    /\ \E i \in 1..Len(annotation.args) : annotation.args[i] = NoneType
    /\ type_info.is_union /\ type_info.is_optional

(***************************************************************************)
(* Docstrings (lines 337-378).  A docstring is the sequence of its lines   *)
(* as inspect.getdoc returns them; <<>> stands for no docstring.           *)
(***************************************************************************)
RECURSIVE LStrip(_)
LStrip(s) == IF s # <<>> /\ Head(s) = " " THEN LStrip(Tail(s)) ELSE s

RECURSIVE RStrip(_)
RStrip(s) == IF s # <<>> /\ s[Len(s)] = " " THEN RStrip(SubSeq(s, 1, Len(s) - 1)) ELSE s

\* str.strip
Strip(s) == RStrip(LStrip(s))

\* str.replace(old, new), old not empty
RECURSIVE ReplaceSub(_, _, _)
ReplaceSub(s, old, new) ==
    IF Len(s) < Len(old) THEN s
    ELSE IF SubSeq(s, 1, Len(old)) = old
         THEN new \o ReplaceSub(DropFirst(s, Len(old)), old, new)
         ELSE <<Head(s)>> \o ReplaceSub(Tail(s), old, new)

\* The least index of character c in s at or after position from, or 0.
RECURSIVE IndexFrom(_, _, _)
IndexFrom(s, c, from) ==
    IF from > Len(s) THEN 0
    ELSE IF s[from] = c THEN from ELSE IndexFrom(s, c, from + 1)

\* line.split(":", 2)
SplitColon2(line) ==
    LET i == IndexFrom(line, ":", 1) IN
    IF i = 0 THEN <<line>>
    ELSE LET j == IndexFrom(line, ":", i + 1) IN
         IF j = 0 THEN <<SubSeq(line, 1, i - 1), DropFirst(line, i)>>
         ELSE <<SubSeq(line, 1, i - 1), SubSeq(line, i + 1, j - 1), DropFirst(line, j)>>

ParamMarker == <<":", "p", "a", "r", "a", "m", " ">>
ParamWord == <<"p", "a", "r", "a", "m", " ">>

\* param_docs[name] = desc on an insertion-ordered dict kept as a sequence of pairs.
DictSet(d, name, desc) ==
    IF \E i \in 1..Len(d) : d[i].name = name
    THEN [i \in 1..Len(d) |-> IF d[i].name = name THEN [name |-> name, desc |-> desc] ELSE d[i]]
    ELSE Append(d, [name |-> name, desc |-> desc])

\* param_docs[name] += more
DictAppend(d, name, more) ==
    [i \in 1..Len(d) |-> IF d[i].name = name THEN [d[i] EXCEPT !.desc = @ \o more] ELSE d[i]]

\* Seeded bug: a continuation line is appended without the separating space.
DocLine_appends_without_space(st, raw) ==
    LET line == Strip(raw) IN
    IF StartsWith(line, ParamMarker)
    THEN LET parts == SplitColon2(line) IN
         IF Len(parts) >= 3
         THEN LET param_name == Strip(ReplaceSub(parts[2], ParamWord, <<>>))
                  param_desc == Strip(parts[3])
              IN [st EXCEPT !.in_params_section = TRUE,
                            !.param_docs = DictSet(@, param_name, param_desc),
                            !.current_param = param_name,
                            !.has_param = param_name # <<>>]
         ELSE [st EXCEPT !.in_params_section = TRUE]
    ELSE IF StartsWith(line, <<":">>) /\ st.has_param
    THEN [st EXCEPT !.current_param = <<>>, !.has_param = FALSE, !.in_params_section = FALSE]
    ELSE IF st.has_param /\ line # <<>>
    THEN [st EXCEPT !.param_docs = DictAppend(@, st.current_param, line)]
    ELSE IF ~st.in_params_section /\ line # <<>> /\ ~StartsWith(line, <<":">>)
    THEN [st EXCEPT !.description_lines = Append(@, line)]
    ELSE st

\* Lines 355-372: the loop body on one line.  has_param stands for the
\* truth value of current_param (None and "" are both false).
DocLine(st, raw) ==
    LET line == Strip(raw) IN
    IF StartsWith(line, ParamMarker)
    THEN LET parts == SplitColon2(line) IN
         IF Len(parts) >= 3
         THEN LET param_name == Strip(ReplaceSub(parts[2], ParamWord, <<>>))
                  param_desc == Strip(parts[3])
              IN [st EXCEPT !.in_params_section = TRUE,
                            !.param_docs = DictSet(@, param_name, param_desc),
                            !.current_param = param_name,
                            !.has_param = param_name # <<>>]
         ELSE [st EXCEPT !.in_params_section = TRUE]
    ELSE IF StartsWith(line, <<":">>) /\ st.has_param
    THEN [st EXCEPT !.current_param = <<>>, !.has_param = FALSE, !.in_params_section = FALSE]
    ELSE IF st.has_param /\ line # <<>>
    THEN [st EXCEPT !.param_docs = DictAppend(@, st.current_param, <<" ">> \o line)]
    ELSE IF ~st.in_params_section /\ line # <<>> /\ ~StartsWith(line, <<":">>)
    THEN [st EXCEPT !.description_lines = Append(@, line)]
    ELSE st

RECURSIVE DocLoop(_, _)
DocLoop(st, lines) ==
    IF lines = <<>> THEN st ELSE DocLoop(DocLine(st, Head(lines)), Tail(lines))

\* " ".join(parts)
RECURSIVE JoinSpace(_)
JoinSpace(parts) ==
    IF parts = <<>> THEN <<>>
    ELSE IF Len(parts) = 1 THEN parts[1]
    ELSE parts[1] \o <<" ">> \o JoinSpace(Tail(parts))

\* Lines 341-378 on the docstring of the unwrapped function.
ParseDoc(doc) ==
    IF doc = <<>> \/ doc = << <<>> >>
    THEN [summary |-> <<>>, description |-> <<>>, parameters |-> <<>>]
    ELSE LET st == DocLoop([param_docs |-> <<>>, current_param |-> <<>>, has_param |-> FALSE,
                            description_lines |-> <<>>, in_params_section |-> FALSE],
                           Tail(doc))
         IN [summary |-> doc[1],
             description |-> JoinSpace(st.description_lines),
             parameters |-> st.param_docs]

(***************************************************************************)
(* One call of extract_docstring_info on the docstring inspect.getdoc      *)
(* returned, a line of the loop of line 354 per step.                      *)
(***************************************************************************)
MaxDocLines == 4    \* most lines after the summary line

\* Lines 349-352.
InitialDocState ==
    [param_docs |-> <<>>, current_param |-> <<>>, has_param |-> FALSE,
     description_lines |-> <<>>, in_params_section |-> FALSE]

SummaryLine == <<"S">>
TextLine == <<"t">>
PaddedTextLine == <<"v", " ">>
BlankLine == <<>>
SectionLine == <<":", "r", ":">>
\* ":param x: a", ":param y:", ":param z" (no closing colon), ":param : d" (no name)
ParamLineX == ParamMarker \o <<"x", ":", " ", "a">>
ParamLineY == ParamMarker \o <<"y", ":">>
ParamLineUnclosed == ParamMarker \o <<"z">>
ParamLineUnnamed == ParamMarker \o <<":", " ", "d">>

DocLines ==
    {TextLine, PaddedTextLine, BlankLine, SectionLine,
     ParamLineX, ParamLineY, ParamLineUnclosed, ParamLineUnnamed}

\* No docstring, the empty docstring, and a summary line followed by at most
\* n lines; inspect.getdoc drops trailing blank lines.
Docstrings(n) ==
    { <<>>, <<BlankLine>> }
    \cup {<<SummaryLine>> \o b : b \in {c \in SeqsUpTo(DocLines, n) :
                                            c = <<>> \/ c[Len(c)] # BlankLine}}

DocInit ==
    /\ doc_lines \in Docstrings(MaxDocLines)
    /\ line_no = 0
    /\ doc_st = <<>>
    /\ doc_info = <<>>
    /\ dpc = "call"
    /\ UnwrapIdle /\ SuffixIdle /\ TypeIdle /\ MainIdle

\* Lines 342-343: no docstring.
DocEmpty ==
    /\ dpc = "call"
    /\ doc_lines = <<>> \/ doc_lines = <<BlankLine>>
    /\ doc_info' = [summary |-> <<>>, description |-> <<>>, parameters |-> <<>>]
    /\ dpc' = "done"
    /\ UNCHANGED <<doc_lines, line_no, doc_st, uvars, svars, tvars, mvars>>

\* Lines 345-352: split, take the summary, initialise the locals.
DocSplit ==
    /\ dpc = "call"
    /\ ~(doc_lines = <<>> \/ doc_lines = <<BlankLine>>)
    /\ doc_st' = InitialDocState
    /\ line_no' = 2
    /\ dpc' = "loop"
    /\ UNCHANGED <<doc_lines, doc_info, uvars, svars, tvars, mvars>>

\* Lines 354-372: the loop body on the next line.
DocStep ==
    /\ dpc = "loop"
    /\ line_no <= Len(doc_lines)
    /\ doc_st' = DocLine(doc_st, doc_lines[line_no])
    /\ line_no' = line_no + 1
    /\ UNCHANGED <<doc_lines, doc_info, dpc, uvars, svars, tvars, mvars>>

\* Lines 374-378.
DocReturn ==
    /\ dpc = "loop"
    /\ line_no > Len(doc_lines)
    /\ doc_info' = [summary |-> doc_lines[1],
                    description |-> JoinSpace(doc_st.description_lines),
                    parameters |-> doc_st.param_docs]
    /\ dpc' = "done"
    /\ UNCHANGED <<doc_lines, line_no, doc_st, uvars, svars, tvars, mvars>>

DocNext == DocEmpty \/ DocSplit \/ DocStep \/ DocReturn

SpecDoc == DocInit /\ [][DocNext]_vars

(***************************************************************************)
(* Properties of the docstring parser.                                     *)
(***************************************************************************)
\* The line a step of the loop is about to process, stripped.
CurLine == Strip(doc_lines[line_no])

IsDocStep == dpc = "loop" /\ line_no <= Len(doc_lines) /\ line_no' = line_no + 1

IsMarker(line) == StartsWith(line, ParamMarker)
IsSection(line) == StartsWith(line, <<":">>)

\* The name and the text a marker line ":param NAME: TEXT" gives.
MarkerClosed(line) == IndexFrom(line, ":", 2) # 0
MarkerParam(line) ==
    LET j == IndexFrom(line, ":", 2)
        e == IF j = 0 THEN Len(line) ELSE j - 1
    IN Strip(SubSeq(line, Len(ParamMarker) + 1, e))
MarkerText(line) ==
    LET j == IndexFrom(line, ":", 2) IN
    IF j = 0 THEN <<>> ELSE Strip(DropFirst(line, j))

HasEntry(d, name) == \E i \in 1..Len(d) : d[i].name = name
Lookup(d, name) == d[CHOOSE i \in 1..Len(d) : d[i].name = name].desc

\* A marker line begins its parameter's description.
MarkerBegins ==
    IsMarker(CurLine) =>
        /\ doc_st'.has_param
        /\ doc_st'.current_param = MarkerParam(CurLine)
        /\ HasEntry(doc_st'.param_docs, MarkerParam(CurLine))
        /\ Lookup(doc_st'.param_docs, MarkerParam(CurLine)) = MarkerText(CurLine)
        /\ doc_st'.description_lines = doc_st.description_lines

\* A marker line with a closing colon records its text under its name and
\* opens that parameter when the name is not empty; a marker line without a
\* closing colon begins nothing and leaves the open parameter as it was.
MarkerBeginsWhenClosed ==
    IsMarker(CurLine) =>
        /\ doc_st'.description_lines = doc_st.description_lines
        /\ IF MarkerClosed(CurLine)
           THEN /\ doc_st'.current_param = MarkerParam(CurLine)
                /\ doc_st'.has_param = (MarkerParam(CurLine) # <<>>)
                /\ HasEntry(doc_st'.param_docs, MarkerParam(CurLine))
                /\ Lookup(doc_st'.param_docs, MarkerParam(CurLine)) = MarkerText(CurLine)
           ELSE /\ doc_st'.param_docs = doc_st.param_docs
                /\ doc_st'.current_param = doc_st.current_param
                /\ doc_st'.has_param = doc_st.has_param

\* While a parameter is open, a non-empty line that is neither a marker nor a
\* section line is appended to that parameter with one separating space.
ContinuationAppended ==
    (doc_st.has_param /\ CurLine # <<>> /\ ~IsSection(CurLine)) =>
        /\ HasEntry(doc_st.param_docs, doc_st.current_param)
        /\ Lookup(doc_st'.param_docs, doc_st.current_param)
             = Lookup(doc_st.param_docs, doc_st.current_param) \o <<" ">> \o CurLine
        /\ Len(doc_st'.param_docs) = Len(doc_st.param_docs)
        /\ doc_st'.current_param = doc_st.current_param
        /\ doc_st'.has_param
        /\ doc_st'.description_lines = doc_st.description_lines

\* A section line closes the open parameter and adds nothing.
SectionCloses ==
    (doc_st.has_param /\ IsSection(CurLine) /\ ~IsMarker(CurLine)) =>
        /\ ~doc_st'.has_param
        /\ doc_st'.param_docs = doc_st.param_docs
        /\ doc_st'.description_lines = doc_st.description_lines

\* A line reaches the description only when no parameter is open, and then it
\* changes no parameter's documentation.
DescriptionExclusive ==
    (doc_st'.description_lines # doc_st.description_lines) =>
        /\ ~doc_st.has_param
        /\ CurLine # <<>> /\ ~IsSection(CurLine)
        /\ doc_st'.description_lines = Append(doc_st.description_lines, CurLine)
        /\ doc_st'.param_docs = doc_st.param_docs

\* C12 as stated: every line starting with the parameter marker begins that
\* parameter's description; following non-empty lines are appended to it
\* with one space until another marker or a section line; a line is added to
\* the description only when it is not a continuation.
C12_AsStated ==
    [][IsDocStep => (MarkerBegins /\ ContinuationAppended /\ SectionCloses
                     /\ DescriptionExclusive)]_vars

\* C12: the same with the marker rule limited to marker lines that have the
\* closing colon after the name (and a non-empty name to be continued).
C12_ClosedMarkers ==
    [][IsDocStep => (MarkerBeginsWhenClosed /\ ContinuationAppended /\ SectionCloses
                     /\ DescriptionExclusive)]_vars

\* ":param x: a", a continuation, a section line, then free text.
C12_Witness ==
    /\ dpc = "done"
    /\ doc_lines = <<SummaryLine, ParamLineX, TextLine, SectionLine, PaddedTextLine>>
    /\ doc_info.parameters = <<[name |-> <<"x">>, desc |-> <<"a", " ", "t">>]>>
    /\ doc_info.description = <<"v">>

\* The stepwise run returns what the parser computes as a function.
DocAgreesWithParseDoc == dpc = "done" => doc_info = ParseDoc(doc_lines)

(***************************************************************************)
(* The registered callables and what reflection reports on them.           *)
(***************************************************************************)
NameBuild == <<"b", "u", "i", "l", "d">>
NameLazy == <<"l", "a", "z", "y">>

\* 1: a plain function; 2: a functools.wraps wrapper of 1; 3: a callable
\* object implemented in C; 4: a function whose annotations do not resolve;
\* 5: a decorator closure that captured an array next to the function.
WorldHeap ==
    << PlainObj(NameBuild),
       [PlainObj(NameWrapped) EXCEPT !.wrapped = Obj(1)],
       PlainObj(NoName),
       PlainObj(NameLazy),
       [PlainObj(NameWrapped) EXCEPT !.closure = <<Ambiguous, Obj(1)>>] >>

\* Default values of parameters: [k, v].
NoDefault == [k |-> "empty", v |-> ""]        \* inspect.Parameter.empty
DefaultNone == [k |-> "None", v |-> ""]
JsonDefault(v) == [k |-> "json", v |-> v]     \* json.dumps succeeds
OpaqueDefault(v) == [k |-> "object", v |-> v] \* json.dumps raises TypeError

StrOf(d) == [k |-> "str", v |-> d.v]           \* str(d)
ReprOf(d) == [k |-> "repr", v |-> d]           \* repr(d)

Param(nm, raw, hint, dflt) ==
    [name |-> nm, annotation |-> raw, hint |-> hint, default |-> dflt,
     kind |-> "POSITIONAL_OR_KEYWORD"]

BuildParams ==
    << Param(<<"x">>, Atom("'Optional[int]'"),
             Generic("Union", <<Atom("int"), NoneType>>), NoDefault),
       Param(<<"m">>, Atom("'Literal'"),
             Generic("Literal", <<Atom("'a'"), Atom("'b'")>>), JsonDefault("'a'")),
       Param(<<"o">>, ParameterEmpty, ParameterEmpty, OpaqueDefault("object()")),
       Param(<<"n">>, ParameterEmpty, ParameterEmpty, DefaultNone) >>

BuildDoc ==
    << <<"S", "u", "m">>,
       <<>>,
       <<"T", "e", "x", "t">>,
       <<":", "p", "a", "r", "a", "m", " ", "x", ":", " ", "a">>,
       <<" ", "b">>,
       <<":", "r", "e", "t", "u", "r", "n", ":", " ", "r">> >>

Reflect ==
    << [signature |-> "ok", hints |-> "ok", params |-> BuildParams,
        returns |-> Atom("int"), doc |-> BuildDoc, file_ok |-> TRUE,
        file_inside |-> TRUE, has_code |-> TRUE, type_name |-> "function"],
       [signature |-> "ok", hints |-> "ok", params |-> <<>>,
        returns |-> ParameterEmpty, doc |-> <<>>, file_ok |-> TRUE,
        file_inside |-> TRUE, has_code |-> TRUE, type_name |-> "function"],
       [signature |-> "ValueError", hints |-> "ok", params |-> <<>>,
        returns |-> ParameterEmpty, doc |-> <<>>, file_ok |-> FALSE,
        file_inside |-> FALSE, has_code |-> FALSE, type_name |-> "builtin"],
       [signature |-> "ok", hints |-> "NameError",
        params |-> <<Param(<<"y">>, Atom("'Missing'"), Atom("Missing"), JsonDefault("1"))>>,
        returns |-> ParameterEmpty, doc |-> << <<"L">> >>, file_ok |-> TRUE,
        file_inside |-> FALSE, has_code |-> TRUE, type_name |-> "function"],
       [signature |-> "ok", hints |-> "ok", params |-> <<>>,
        returns |-> ParameterEmpty, doc |-> <<>>, file_ok |-> TRUE,
        file_inside |-> TRUE, has_code |-> TRUE, type_name |-> "function"] >>

\* json.dumps(type_info) succeeds: every literal is a JSON value.
JsonDumpsOk(ti) == \A i \in 1..Len(ti.literals) : ti.literals[i] # Atom("b'x'")

\* Lines 291-322: the record of one parameter.
ParamInfo(p, hints_ok) ==
    LET actual_annotation == IF hints_ok THEN p.hint ELSE p.annotation
        ti == extract_type_info(actual_annotation)
        dflt == IF p.default = NoDefault THEN DefaultNone ELSE p.default
        base == [name |-> p.name, type |-> ti.type_string,
                 type_info |-> IF JsonDumpsOk(ti) THEN ti
                               ELSE [f \in DOMAIN ti |->
                                       IF f \in {"origin", "inner_type"} /\ ti[f] = None
                                       THEN None ELSE Str(ti[f])],
                 required |-> p.default = NoDefault,
                 default |-> dflt, kind |-> p.kind]
    IN IF dflt # DefaultNone /\ dflt.k = "object"
       THEN [f \in DOMAIN base \cup {"default_repr"} |->
               IF f = "default" THEN StrOf(dflt)
               ELSE IF f = "default_repr" THEN ReprOf(StrOf(dflt))
               ELSE base[f]]
       ELSE base

SignatureError == [parameters |-> <<>>, return_type |-> <<"A", "n", "y">>,
                   error |-> "Failed to extract signature"]

\* Lines 266-334.
extract_function_signature(f) ==
    LET u == unwrap_decorated_function(WorldHeap, f) IN
    IF u.raised THEN SignatureError
    ELSE LET r == Reflect[u.val.id] IN
         IF r.signature # "ok" THEN SignatureError
         ELSE [parameters |-> [i \in 1..Len(r.params) |->
                                  ParamInfo(r.params[i], r.hints = "ok")],
               return_type |-> get_type_annotation_string(r.returns)]

\* Lines 337-343: the docstring record; the unwrapper's error is not caught.
extract_docstring_info(f) ==
    LET u == unwrap_decorated_function(WorldHeap, f) IN
    IF u.raised THEN [raised |-> TRUE, info |-> ParseDoc(<<>>)]
    ELSE [raised |-> FALSE, info |-> ParseDoc(Reflect[u.val.id].doc)]

\* Lines 44-55.
make_path_relative_to_package(inside) ==
    IF inside THEN "<zetta_utils>/relative_path" ELSE "<external>/abs_path"

\* Lines 418-456: the version record of one entry, once both extractions are done.
VersionInfo(entry, signature_info, docstring_info) ==
    LET u == unwrap_decorated_function(WorldHeap, entry.fn)
        r == Reflect[u.val.id]
        o == WorldHeap[u.val.id]
    IN [function_name |-> IF o.name # NoName THEN o.name ELSE <<r.type_name>>,
        module |-> "module",
        file |-> IF r.file_ok THEN make_path_relative_to_package(r.file_inside)
                 ELSE "unknown",
        line_number |-> IF r.has_code THEN u.val.id ELSE 0,
        allow_partial |-> entry.allow_partial,
        allow_parallel |-> entry.allow_parallel,
        version_spec |-> entry.version_spec,
        signature |-> signature_info,
        documentation |-> docstring_info,
        callable_type |-> Reflect[entry.fn.id].type_name]

(***************************************************************************)
(* convert_to_extension_format (lines 479-555).                            *)
(***************************************************************************)
DEFAULT_VERSION == "DEFAULT_VERSION"

\* Lines 518-530: the six keys copied for each parameter.
ParametersArray(parameters) ==
    [i \in 1..Len(parameters) |->
        [name |-> parameters[i].name, type |-> parameters[i].type,
         type_info |-> parameters[i].type_info, required |-> parameters[i].required,
         default |-> parameters[i].default, kind |-> parameters[i].kind]]

\* Lines 514-553: the flattened record of one version.
ExtensionRecord(name, version_info) ==
    [name |-> name \o version_spec_to_suffix(version_info.version_spec),
     parameters |-> ParametersArray(version_info.signature.parameters),
     version_spec |-> version_info.version_spec,
     metadata |-> [function_name |-> version_info.function_name,
                   module |-> version_info.module,
                   file |-> version_info.file,
                   line_number |-> version_info.line_number,
                   allow_partial |-> version_info.allow_partial,
                   allow_parallel |-> version_info.allow_parallel,
                   documentation |-> version_info.documentation]]

\* Seeded bug: only the first version of each builder is exported.
convert_to_extension_format_latest_only(md) ==
    [builders |->
        Concat([b \in 1..Len(md.builders) |->
                  IF md.builders[b].versions = <<>> THEN <<>>
                  ELSE <<ExtensionRecord(md.builders[b].name, md.builders[b].versions[1])>>]),
     default_version |-> DEFAULT_VERSION]

\* Lines 509-555.
convert_to_extension_format(md) ==
    [builders |->
        Concat([b \in 1..Len(md.builders) |->
                  [v \in 1..Len(md.builders[b].versions) |->
                      ExtensionRecord(md.builders[b].name, md.builders[b].versions[v])]]),
     default_version |-> DEFAULT_VERSION]

(***************************************************************************)
(* One run of the script.                                                  *)
(***************************************************************************)
MaxBuilders == 2    \* most names in the registry

Entry(f, partial, parallel, spec) ==
    [fn |-> f, allow_partial |-> partial, allow_parallel |-> parallel, version_spec |-> spec]

Entries ==
    { Entry(Obj(2), TRUE, FALSE, <<">", "=", "0", ".", "0", ".", "0">>),
      Entry(Obj(1), FALSE, TRUE, <<"=", "=", "1", ".", "2", ".", "3">>),
      Entry(Obj(3), FALSE, FALSE, <<"<", "=", "1", ".", "2">>),
      Entry(Obj(4), TRUE, TRUE, <<"<", "1", ".", "2">>),
      Entry(Obj(5), FALSE, TRUE, <<">", "=", "0", ".", "0", ".", "0">>) }

\* The version lists of one name: none, one entry, or any entry after a
\* wrapped function or after a callable whose signature lookup fails.
EntryLists ==
    {<<>>} \cup {<<e>> : e \in Entries}
    \cup {<<e1, e2>> : e1 \in {e \in Entries : e.fn \in {Obj(2), Obj(3)}}, e2 \in Entries}

\* The i-th registry key.
RegistryName(i) == <<"b">> \o [j \in 1..i |-> "x"]

\* The registries of at most max names.
Registries(max) ==
    UNION { {[i \in 1..n |-> [name |-> RegistryName(i), entries |-> ls[i]]] :
                ls \in [1..n -> EntryLists]} : n \in 0..max }

BuilderMetadataPath == "builder_metadata.json"
PackageInfoPath == "package_info.json"

\* Lines 383-398.
InitialMetadata ==
    [version |-> "1.0.0", builders |-> <<>>,
     statistics |-> [total_builders |-> 0, total_entries |-> 0,
                     builders_with_partial |-> 0, builders_with_parallel |-> 0]]

MainInit ==
    /\ registry \in Registries(MaxBuilders)
    /\ verbose \in BOOLEAN
    /\ pc = "import"
    /\ bi = 0 /\ ei = 0
    /\ builder_versions = <<>>
    /\ metadata = <<>>
    /\ total_entries = 0 /\ builders_with_partial = 0 /\ builders_with_parallel = 0
    /\ extension_format = <<>>
    /\ files = <<>> /\ stdout = <<>> /\ stderr = <<>>
    /\ exit_code = -1
    /\ failure = "none"
    /\ UnwrapIdle /\ SuffixIdle /\ TypeIdle /\ DocIdle

runVars == <<registry, verbose>>
loopVars == <<bi, ei, builder_versions, metadata, total_entries,
              builders_with_partial, builders_with_parallel>>
notMain == <<uvars, svars, tvars, dvars>>

\* The status of a run ended by an exception nothing catches.
UncaughtExitStatus == 1
\* Lines 41, 77, 634: sys.exit(1).
ErrorExitStatus == 1

\* Lines 28-35, 59-72: the library is found and loaded.
LoadLibrary ==
    /\ pc = "import"
    /\ stdout' = stdout \o <<"Found zetta_utils package", "Loading all modules",
                             "Successfully loaded all modules">>
    /\ pc' = "main"
    /\ UNCHANGED <<runVars, loopVars, extension_format, files, stderr, exit_code,
                   failure, notMain>>

\* Lines 36-41, 74-77: ImportError.
LoadLibraryFails ==
    /\ pc = "import"
    /\ stdout' = Append(stdout, "Error: zetta_utils not importable")
    /\ exit_code' = ErrorExitStatus
    /\ failure' = "import"
    /\ pc' = "exit"
    /\ UNCHANGED <<runVars, loopVars, extension_format, files, stderr, notMain>>

\* Lines 572-584, 383-398: the output directory exists; extraction starts.
StartMain ==
    /\ pc = "main"
    /\ stdout' = IF verbose
                 THEN stdout \o <<"Output directory", "Extracting metadata">>
                 ELSE stdout
    /\ metadata' = InitialMetadata
    /\ total_entries' = 0 /\ builders_with_partial' = 0 /\ builders_with_parallel' = 0
    /\ bi' = 1 /\ ei' = 0
    /\ pc' = "extract"
    /\ UNCHANGED <<runVars, builder_versions, extension_format, files, stderr,
                   exit_code, failure, notMain>>

\* Lines 577, 580: mkdir raises OSError, outside the try of line 586.
MkdirFails ==
    /\ pc = "main"
    /\ stderr' = Append(stderr, "Traceback")
    /\ exit_code' = UncaughtExitStatus
    /\ failure' = "mkdir"
    /\ pc' = "exit"
    /\ UNCHANGED <<runVars, loopVars, extension_format, files, stdout, notMain>>

\* Seeded bug: total_entries counts the names, not their entries.
StartBuilder_counts_names ==
    /\ pc = "extract" /\ bi <= Len(registry) /\ ei = 0
    /\ total_entries' = total_entries + 1
    /\ builder_versions' = <<>>
    /\ ei' = 1
    /\ UNCHANGED <<runVars, bi, metadata, builders_with_partial, builders_with_parallel,
                   pc, extension_format, files, stdout, stderr, exit_code, failure, notMain>>

\* Lines 400-404: the loop of line 400 takes the next name.
StartBuilder ==
    /\ pc = "extract" /\ bi <= Len(registry) /\ ei = 0
    /\ total_entries' = total_entries + Len(registry[bi].entries)
    /\ builder_versions' = <<>>
    /\ ei' = 1
    /\ UNCHANGED <<runVars, bi, metadata, builders_with_partial, builders_with_parallel,
                   pc, extension_format, files, stdout, stderr, exit_code, failure, notMain>>

\* Lines 405-458: one entry gives one version record.
ExtractEntry ==
    /\ pc = "extract" /\ bi <= Len(registry)
    /\ ei >= 1 /\ ei <= Len(registry[bi].entries)
    /\ LET entry == registry[bi].entries[ei]
           signature_info == extract_function_signature(entry.fn)
           docstring == extract_docstring_info(entry.fn)
       IN /\ ~docstring.raised
          /\ builders_with_partial' =
                builders_with_partial + (IF entry.allow_partial THEN 1 ELSE 0)
          /\ builders_with_parallel' =
                builders_with_parallel + (IF entry.allow_parallel THEN 1 ELSE 0)
          /\ builder_versions' =
                Append(builder_versions, VersionInfo(entry, signature_info, docstring.info))
    /\ ei' = ei + 1
    /\ UNCHANGED <<runVars, bi, metadata, total_entries, pc, extension_format, files,
                   stdout, stderr, exit_code, failure, notMain>>

\* Line 410 -> 340: the unwrapper raises ValueError inside extract_docstring_info;
\* neither extract_builder_metadata nor the except of line 630 catches it.
ExtractEntryRaises ==
    /\ pc = "extract" /\ bi <= Len(registry)
    /\ ei >= 1 /\ ei <= Len(registry[bi].entries)
    /\ extract_docstring_info(registry[bi].entries[ei].fn).raised
    /\ stderr' = Append(stderr, "Traceback")
    /\ exit_code' = UncaughtExitStatus
    /\ failure' = "extract"
    /\ pc' = "exit"
    /\ UNCHANGED <<runVars, loopVars, extension_format, files, stdout, notMain>>

\* Lines 460-464: the builder's record.
FinishBuilder ==
    /\ pc = "extract" /\ bi <= Len(registry)
    /\ ei > Len(registry[bi].entries)
    /\ metadata' = [metadata EXCEPT !.builders =
          Append(@, [name |-> registry[bi].name,
                     versions |-> builder_versions,
                     latest_version |-> IF builder_versions # <<>>
                                        THEN <<builder_versions[1]>> ELSE <<>>])]
    /\ bi' = bi + 1
    /\ ei' = 0
    /\ UNCHANGED <<runVars, builder_versions, total_entries, builders_with_partial,
                   builders_with_parallel, pc, extension_format, files, stdout, stderr,
                   exit_code, failure, notMain>>

\* Lines 466-476: the statistics; extract_builder_metadata returns.
FinishExtract ==
    /\ pc = "extract" /\ bi > Len(registry)
    /\ metadata' = [metadata EXCEPT !.statistics =
          [total_builders |-> Len(metadata.builders),
           total_entries |-> total_entries,
           builders_with_partial |-> builders_with_partial,
           builders_with_parallel |-> builders_with_parallel]]
    /\ pc' = "convert"
    /\ UNCHANGED <<runVars, bi, ei, builder_versions, total_entries, builders_with_partial,
                   builders_with_parallel, extension_format, files, stdout, stderr,
                   exit_code, failure, notMain>>

\* Line 591.
Convert ==
    /\ pc = "convert"
    /\ extension_format' = convert_to_extension_format(metadata)
    /\ pc' = "write_builder_metadata"
    /\ UNCHANGED <<runVars, loopVars, files, stdout, stderr, exit_code, failure, notMain>>

\* Lines 594-596.
WriteBuilderMetadata ==
    /\ pc = "write_builder_metadata"
    /\ files' = Append(files, [path |-> BuilderMetadataPath, content |-> extension_format])
    /\ pc' = "write_package_info"
    /\ UNCHANGED <<runVars, loopVars, extension_format, stdout, stderr, exit_code,
                   failure, notMain>>

\* Seeded bug: the second file is never written.
WritePackageInfo_skipped ==
    /\ pc = "write_package_info"
    /\ pc' = "report"
    /\ UNCHANGED <<runVars, loopVars, extension_format, files, stdout, stderr, exit_code,
                   failure, notMain>>

\* Lines 599-602.
WritePackageInfo ==
    /\ pc = "write_package_info"
    /\ files' = Append(files, [path |-> PackageInfoPath,
                               content |-> [zetta_utils_package_path |-> "package_path"]])
    /\ pc' = "report"
    /\ UNCHANGED <<runVars, loopVars, extension_format, stdout, stderr, exit_code,
                   failure, notMain>>

\* Lines 595, 601 -> 630-634: open raises FileNotFoundError, which main catches.
WriteFails ==
    /\ pc \in {"write_builder_metadata", "write_package_info"}
    /\ stderr' = stderr \o <<"Error extracting metadata">>
                        \o (IF verbose THEN <<"Traceback">> ELSE <<>>)
    /\ exit_code' = ErrorExitStatus
    /\ failure' = "write"
    /\ pc' = "exit"
    /\ UNCHANGED <<runVars, loopVars, extension_format, files, stdout, notMain>>

\* Lines 595, 601: open raises another OSError (PermissionError), which nothing catches.
WriteCrashes ==
    /\ pc \in {"write_builder_metadata", "write_package_info"}
    /\ stderr' = Append(stderr, "Traceback")
    /\ exit_code' = UncaughtExitStatus
    /\ failure' = "write"
    /\ pc' = "exit"
    /\ UNCHANGED <<runVars, loopVars, extension_format, files, stdout, notMain>>

\* Lines 604-625: the verbose summary.
Report ==
    /\ pc = "report" /\ verbose
    /\ stdout' = stdout \o <<"Successfully extracted metadata", "Generated files:",
                             "  * builder_metadata.json", "  * package_info.json",
                             "Sample builders found:">>
    /\ pc' = "print_path"
    /\ UNCHANGED <<runVars, loopVars, extension_format, files, stderr, exit_code,
                   failure, notMain>>

\* Line 628, then main returns: status 0.
PrintPath ==
    /\ pc = "print_path" \/ (pc = "report" /\ ~verbose)
    /\ stdout' = Append(stdout, BuilderMetadataPath)
    /\ exit_code' = 0
    /\ pc' = "exit"
    /\ UNCHANGED <<runVars, loopVars, extension_format, files, stderr, failure, notMain>>

MainNext ==
    \/ LoadLibrary \/ LoadLibraryFails \/ StartMain \/ MkdirFails
    \/ StartBuilder \/ ExtractEntry \/ ExtractEntryRaises \/ FinishBuilder \/ FinishExtract
    \/ Convert \/ WriteBuilderMetadata \/ WritePackageInfo \/ WriteFails \/ WriteCrashes
    \/ Report \/ PrintPath

SpecMain == MainInit /\ [][MainNext]_vars

(***************************************************************************)
(* Properties of a run.                                                    *)
(***************************************************************************)
\* The registry entries in the order the two loops visit them.
FlatEntries(reg) == Concat([i \in 1..Len(reg) |-> reg[i].entries])

ZeroEntries(reg) == \A i \in 1..Len(reg) : reg[i].entries = <<>>

BothWritten ==
    /\ Len(files) = 2
    /\ files[1].path = BuilderMetadataPath
    /\ files[2].path = PackageInfoPath

PathPrinted == \E i \in 1..Len(stdout) : stdout[i] = BuilderMetadataPath

\* extract_builder_metadata has returned its document.
Extracted ==
    \/ pc \in {"convert", "write_builder_metadata", "write_package_info", "report",
               "print_path"}
    \/ pc = "exit" /\ failure \in {"none", "write"}

\* convert_to_extension_format has returned.
Converted == Extracted /\ pc # "convert"

\* Some reflection step fails on the entry: unwrapping, signature lookup,
\* type-hint resolution or file lookup.
ReflectionFails(entry) ==
    LET u == unwrap_decorated_function(WorldHeap, entry.fn) IN
    \/ u.raised
    \/ Reflect[u.val.id].signature # "ok"
    \/ Reflect[u.val.id].hints # "ok"
    \/ ~Reflect[u.val.id].file_ok

\* C3: whatever reflection step fails on an entry, extraction completes with
\* one version record per entry, and the failed entry's signature record has
\* an error string, no parameters and return type "Any".
C3_EveryFailureRecorded ==
    /\ failure # "extract"
    /\ Extracted =>
          \A b \in 1..Len(registry) :
             /\ Len(metadata.builders[b].versions) = Len(registry[b].entries)
             /\ \A e \in 1..Len(registry[b].entries) :
                   ReflectionFails(registry[b].entries[e]) =>
                      LET sig == metadata.builders[b].versions[e].signature IN
                      /\ "error" \in DOMAIN sig
                      /\ sig.parameters = <<>>
                      /\ sig.return_type = <<"A", "n", "y">>

SourceParams(entry) ==
    LET u == unwrap_decorated_function(WorldHeap, entry.fn) IN
    IF u.raised \/ Reflect[u.val.id].signature # "ok" THEN <<>>
    ELSE Reflect[u.val.id].params

\* C5: in the records written to builder_metadata.json, a default that fails
\* JSON serialization is replaced by its string form and comes with a
\* default_repr field; a default that serializes is unchanged, without it.
C5_DefaultReprWritten ==
    (Len(files) >= 1) =>
        LET out == files[1].content.builders
            src == FlatEntries(registry)
        IN \A k \in 1..Len(out) :
              \A j \in 1..Len(out[k].parameters) :
                 LET p == out[k].parameters[j]
                     d == SourceParams(src[k])[j].default
                 IN IF d.k = "object"
                    THEN p.default = StrOf(d) /\ "default_repr" \in DOMAIN p
                    ELSE /\ p.default = (IF d = NoDefault THEN DefaultNone ELSE d)
                         /\ "default_repr" \notin DOMAIN p

\* C10 as stated: with zero entries all four totals are zero, the builders
\* array is empty, and a run that ends well has written both files.
C10_AllTotalsZero ==
    ZeroEntries(registry) =>
        /\ failure # "extract"
        /\ Extracted =>
              /\ metadata.statistics.total_builders = 0
              /\ metadata.statistics.total_entries = 0
              /\ metadata.statistics.builders_with_partial = 0
              /\ metadata.statistics.builders_with_parallel = 0
        /\ Converted => extension_format.builders = <<>>
        /\ (pc = "exit" /\ exit_code = 0) => BothWritten

\* C10 (amended): with zero entries total_entries, builders_with_partial and
\* builders_with_parallel are zero and total_builders is the number of
\* registry names (zero for the empty registry); the builders array is empty,
\* extraction does not fail, and a run that ends well has written both files.
C10_ZeroEntries ==
    ZeroEntries(registry) =>
        /\ failure # "extract"
        /\ Extracted =>
              /\ metadata.statistics.total_builders = Len(registry)
              /\ metadata.statistics.total_entries = 0
              /\ metadata.statistics.builders_with_partial = 0
              /\ metadata.statistics.builders_with_parallel = 0
        /\ Converted => extension_format.builders = <<>>
        /\ (pc = "exit" /\ exit_code = 0) => BothWritten

C10_Witness ==
    /\ pc = "exit" /\ exit_code = 0
    /\ ZeroEntries(registry) /\ Len(registry) >= 1
    /\ metadata.statistics.total_builders = Len(registry)
    /\ metadata.statistics.total_entries = 0
    /\ extension_format.builders = <<>>
    /\ BothWritten

\* The registry key of each entry, in the order the two loops visit them.
EntryOrigins(reg) ==
    Concat([i \in 1..Len(reg) |-> [j \in 1..Len(reg[i].entries) |-> reg[i].name]])

\* The step in which convert_to_extension_format runs on the document.
ConvertStep == pc = "convert" /\ pc' # "convert"

\* C13: on every document extract_builder_metadata produced, the conversion
\* emits one flattened record per registry entry (as many as
\* statistics.total_entries), in registry order, each with the entry's raw
\* specifier string, and leaves the input document as it was.
C13_OneRecordPerEntry ==
    [][ConvertStep =>
         /\ metadata' = metadata
         /\ LET out == extension_format'.builders
                es == FlatEntries(registry)
            IN /\ Len(out) = metadata.statistics.total_entries
               /\ Len(out) = Len(es)
               /\ \A i \in 1..Len(out) :
                     /\ out[i].version_spec = es[i].version_spec
                     /\ out[i].metadata.allow_partial = es[i].allow_partial
                     /\ out[i].metadata.allow_parallel = es[i].allow_parallel
                     /\ StartsWith(out[i].name, EntryOrigins(registry)[i])]_vars

\* Two builders with three entries between them have been converted.
C13_Witness ==
    /\ Converted
    /\ Len(registry) = 2
    /\ Len(FlatEntries(registry)) = 3
    /\ Len(extension_format.builders) = 3
    /\ extension_format.builders[3].version_spec = FlatEntries(registry)[3].version_spec

====
